---- MODULE Spec2Model ----
(***************************************************************************)
(* HLSF bigram shard partitioner (hlsf_db_tools/partition.py).             *)
(*                                                                         *)
(* Strings are sequences of one-character strings, so that indexing,       *)
(* str.strip, str.lower, str.upper and the code-point order of Python's    *)
(* string comparison are computed and not assumed.  JSON objects are       *)
(* functions whose domain is the set of keys that are present; a missing   *)
(* key is a key outside the domain.  ISO-8601 timestamps are positive      *)
(* integers (their order is the lexicographic order of the strings) and    *)
(* None is 0.  Edge weights are naturals (float(w) keeps their order).     *)
(***************************************************************************)
EXTENDS Integers, Sequences, FiniteSets, TLC

VARIABLES
    disk,        \* the shard root: [Shards -> shard document or Missing]
    clock,       \* the value now_iso() returns to the next run
    lastRun,     \* what the most recent run did (its arguments and outcome)
    imported,    \* history: the edges given by the records of completed imports
    fallbacks,   \* history: the fallback letters of completed imports
    rerun,       \* the export and fallback letter of an import that is run twice
    mode,        \* which specification is running ("import", "bucket", "single", ...)
    inTok,       \* bucket function under test: the raw token
    inFb,        \*   its fallback letter
    outBucket,   \*   its result
    inA,         \* merge functions under test: first argument
    inB,         \*   second argument
    outAB,       \*   result of merge(inA, inB)
    outBA,       \*   result of merge(inB, inA)
    fsys,        \* write phase step by step: the paths and files of the root
    runs,        \*   and the import runs that are executing on it
    loader,      \* an HLSFShardLoader object (its fields) and its last answer
    chunks       \* the chunks directory of the prefix chunker

vars == <<disk, clock, lastRun, imported, fallbacks, rerun, mode,
          inTok, inFb, outBucket, inA, inB, outAB, outBA, fsys, runs,
          loader, chunks>>

----------------------------------------------------------------------------
(* Bounds of the model *)

MaxRecords == 2     \* records per export
MaxClock == 4       \* runs per behaviour (each run reads the clock once)
MaxTokenLen == 2    \* characters of a raw token handed to bigram_bucket
MaxEdges == 2       \* edges per relationship list handed to the merge functions
MaxWeight == 2      \* edge weights are 0..MaxWeight
MaxStamp == 2       \* cached_at timestamps are 1..MaxStamp

----------------------------------------------------------------------------
(* Python values *)

None == 0

Range(f) == {f[i] : i \in DOMAIN f}

Max(a, b) == IF a >= b THEN a ELSE b

SetMax(S) == CHOOSE m \in S : \A n \in S : n <= m

\* dict.get(key, default)
Get(obj, key, default) == IF key \in DOMAIN obj THEN obj[key] ELSE default

ALPHABET == <<"A", "B", "C", "D", "E", "F", "G", "H", "I", "J", "K", "L", "M",
              "N", "O", "P", "Q", "R", "S", "T", "U", "V", "W", "X", "Y", "Z">>

LOWERCASE == <<"a", "b", "c", "d", "e", "f", "g", "h", "i", "j", "k", "l", "m",
               "n", "o", "p", "q", "r", "s", "t", "u", "v", "w", "x", "y", "z">>

BIGRAMS == {<<ALPHABET[i], ALPHABET[j]>> : i, j \in DOMAIN ALPHABET}

IndexOf(seq, c) == CHOOSE i \in DOMAIN seq : seq[i] = c

\* The characters of the model: ASCII letters, a digit, punctuation, two
\* kinds of whitespace, and one non-ASCII letter in both cases.
isspace(c) == c \in {" ", "\t"}

isalpha(c) == c \in Range(ALPHABET) \cup Range(LOWERCASE) \cup {"é", "É"}

lower(c) ==
    IF c \in Range(ALPHABET) THEN LOWERCASE[IndexOf(ALPHABET, c)]
    ELSE IF c = "É" THEN "é" ELSE c

upper(c) ==
    IF c \in Range(LOWERCASE) THEN ALPHABET[IndexOf(LOWERCASE, c)]
    ELSE IF c = "é" THEN "É" ELSE c

\* Unicode code point, the order of Python's str comparison
ord(c) ==
    IF c \in Range(ALPHABET) THEN 64 + IndexOf(ALPHABET, c)
    ELSE IF c \in Range(LOWERCASE) THEN 96 + IndexOf(LOWERCASE, c)
    ELSE CASE c = "\t" -> 9
           [] c = " " -> 32
           [] c = "#" -> 35
           [] c = "7" -> 55
           [] c = "?" -> 63
           [] c = "²" -> 178
           [] c = "É" -> 201
           [] c = "é" -> 233

RECURSIVE StrLess(_, _)
StrLess(s, t) ==
    IF t = <<>> THEN FALSE
    ELSE IF s = <<>> THEN TRUE
    ELSE IF ord(Head(s)) # ord(Head(t)) THEN ord(Head(s)) < ord(Head(t))
    ELSE StrLess(Tail(s), Tail(t))

str_lower(s) == [i \in DOMAIN s |-> lower(s[i])]

RECURSIVE lstrip(_)
lstrip(s) == IF s # <<>> /\ isspace(Head(s)) THEN lstrip(Tail(s)) ELSE s

RECURSIVE rstrip(_)
rstrip(s) ==
    IF s # <<>> /\ isspace(s[Len(s)]) THEN rstrip(SubSeq(s, 1, Len(s) - 1)) ELSE s

strip(s) == rstrip(lstrip(s))

\* re.sub(r"\s+", " ", s)
RECURSIVE collapse_whitespace(_)
collapse_whitespace(s) ==
    IF s = <<>> THEN <<>>
    ELSE IF isspace(Head(s)) THEN <<" ">> \o collapse_whitespace(lstrip(s))
    ELSE <<Head(s)>> \o collapse_whitespace(Tail(s))

----------------------------------------------------------------------------
(* Token normalizer and bucket assigner *)

normalize_token(token) == collapse_whitespace(strip(token))

\* pick with the character left as it is in the lowercased token
pick_keeps_case(tok, index, fallback_letter) ==
    IF index < Len(tok) /\ isalpha(tok[index + 1])
    THEN tok[index + 1]
    ELSE fallback_letter

\* the closure pick(index) of bigram_bucket, with its free variables
pick(tok, index, fallback_letter) ==
    IF index < Len(tok) /\ isalpha(tok[index + 1])
    THEN upper(tok[index + 1])
    ELSE fallback_letter

\* (folder, bigram): the folder is a one-character string, the bigram is
\* the concatenation first + second
bigram_bucket(token, fallback_letter) ==
    LET tok == str_lower(normalize_token(token))
        first == pick(tok, 0, fallback_letter)
        second == pick(tok, 1, fallback_letter)
    IN <<(<<first>>), <<first, second>>>>

----------------------------------------------------------------------------
(* Merge strategy *)

\* edge["token"] raises KeyError for an edge of dst_list without the key
merge_relationship_lists_raises(dst_list, src_list) ==
    \E i \in DOMAIN dst_list : "token" \notin DOMAIN dst_list[i]

\* {edge["token"]: float(edge.get("weight", 0.0)) for edge in dst_list}:
\* a later edge of the same neighbor overwrites an earlier one
seed_by_tok(dst_list) ==
    [k \in {dst_list[i].token : i \in DOMAIN dst_list} |->
        LET last == SetMax({i \in DOMAIN dst_list : dst_list[i].token = k})
        IN Get(dst_list[last], "weight", 0)]

\* the loop over src_list with by_tok[token] = weight in both branches
RECURSIVE fold_src_last_wins(_, _)
fold_src_last_wins(by_tok, src_list) ==
    IF src_list = <<>> THEN by_tok
    ELSE LET edge == Head(src_list)
             token == Get(edge, "token", <<>>)
             weight == Get(edge, "weight", 0)
         IN IF token = <<>>
            THEN fold_src_last_wins(by_tok, Tail(src_list))
            ELSE fold_src_last_wins(
                   [k \in DOMAIN by_tok \cup {token} |->
                       IF k # token THEN by_tok[k] ELSE weight],
                   Tail(src_list))

\* the loop over src_list with by_tok[token] + weight for a known neighbor
RECURSIVE fold_src_adds(_, _)
fold_src_adds(by_tok, src_list) ==
    IF src_list = <<>> THEN by_tok
    ELSE LET edge == Head(src_list)
             token == Get(edge, "token", <<>>)
             weight == Get(edge, "weight", 0)
         IN IF token = <<>>
            THEN fold_src_adds(by_tok, Tail(src_list))
            ELSE fold_src_adds(
                   [k \in DOMAIN by_tok \cup {token} |->
                       IF k # token THEN by_tok[k]
                       ELSE IF token \in DOMAIN by_tok
                            THEN by_tok[token] + weight
                            ELSE weight],
                   Tail(src_list))

\* the loop over src_list
RECURSIVE fold_src(_, _)
fold_src(by_tok, src_list) ==
    IF src_list = <<>> THEN by_tok
    ELSE LET edge == Head(src_list)
             token == Get(edge, "token", <<>>)
             weight == Get(edge, "weight", 0)
         IN IF token = <<>>
            THEN fold_src(by_tok, Tail(src_list))
            ELSE fold_src(
                   [k \in DOMAIN by_tok \cup {token} |->
                       IF k # token THEN by_tok[k]
                       ELSE IF token \in DOMAIN by_tok
                            THEN Max(by_tok[token], weight)
                            ELSE weight],
                   Tail(src_list))

\* key=lambda item: (item[1], item[0])
sort_key_ascending(k1, w1, k2, w2) == (w1 < w2) \/ (w1 = w2 /\ StrLess(k1, k2))

\* key=lambda item: item[0]
sort_key_token_only(k1, w1, k2, w2) == StrLess(k1, k2)

\* key=lambda item: (-item[1], item[0])
sort_key_less(k1, w1, k2, w2) == (-w1 < -w2) \/ (w1 = w2 /\ StrLess(k1, k2))

RECURSIVE sorted_items(_)
sorted_items(by_tok) ==
    IF DOMAIN by_tok = {} THEN <<>>
    ELSE LET key == CHOOSE k \in DOMAIN by_tok :
                        \A j \in DOMAIN by_tok \ {k} :
                            sort_key_less(k, by_tok[k], j, by_tok[j])
         IN <<[token |-> key, weight |-> by_tok[key]]>>
            \o sorted_items([k \in DOMAIN by_tok \ {key} |-> by_tok[k]])

merge_relationship_lists(dst_list, src_list) ==
    sorted_items(fold_src(seed_by_tok(dst_list), src_list))

merge_token_raises(dst_tok_obj, src_tok_obj) ==
    LET dst_rel == Get(dst_tok_obj, "relationships", <<>>)
        src_rel == Get(src_tok_obj, "relationships", <<>>)
    IN \E rel_type \in DOMAIN dst_rel :
          merge_relationship_lists_raises(dst_rel[rel_type], Get(src_rel, rel_type, <<>>))

\* isinstance(ts, str): timestamps are positive, None is 0 and a cached_at
\* that is a JSON number is negative
isinstance_str(ts) == ts > 0

\* src_tok_obj.get("cached_at") alone
src_cached_at(dst_tok_obj, src_tok_obj) == Get(src_tok_obj, "cached_at", None)

\* min(cached_values, default=None): the oldest timestamp
oldest_cached_at(dst_tok_obj, src_tok_obj) ==
    LET cached_values == {ts \in {Get(dst_tok_obj, "cached_at", None),
                                  Get(src_tok_obj, "cached_at", None)} :
                                isinstance_str(ts)}
    IN IF cached_values = {} THEN None
       ELSE CHOOSE m \in cached_values : \A n \in cached_values : m <= n

\* max(cached_values, default=None) over the cached_at values that are strings
latest_cached_at(dst_tok_obj, src_tok_obj) ==
    LET cached_values == {ts \in {Get(dst_tok_obj, "cached_at", None),
                                  Get(src_tok_obj, "cached_at", None)} :
                                isinstance_str(ts)}
    IN IF cached_values = {} THEN None ELSE SetMax(cached_values)

merge_token(dst_tok_obj, src_tok_obj) ==
    LET dst_rel == Get(dst_tok_obj, "relationships", <<>>)
        src_rel == Get(src_tok_obj, "relationships", <<>>)
        all_types == DOMAIN dst_rel \cup DOMAIN src_rel
    IN [relationships |->
           [rel_type \in all_types |->
               merge_relationship_lists(Get(dst_rel, rel_type, <<>>),
                                        Get(src_rel, rel_type, <<>>))],
        cached_at |-> latest_cached_at(dst_tok_obj, src_tok_obj)]

\* the incoming shard replaces the stored one
merge_shard_replaces(dst, src, now) ==
    LET src_tokens == Get(src, "tokens", <<>>)
    IN [schema_version |-> 1,
        updated_at |-> now,
        tokens |-> [token \in DOMAIN src_tokens |-> merge_token(<<>>, src_tokens[token])]]

merge_shard(dst, src, now) ==
    LET dst_tokens == Get(dst, "tokens", <<>>)
        src_tokens == Get(src, "tokens", <<>>)
        all_tokens == DOMAIN dst_tokens \cup DOMAIN src_tokens
    IN [schema_version |-> 1,
        updated_at |-> now,
        tokens |-> [token \in all_tokens |->
                       merge_token(Get(dst_tokens, token, <<>>),
                                   Get(src_tokens, token, <<>>))]]

----------------------------------------------------------------------------
(* Shard store *)

\* a path with no file
Missing == [exists |-> FALSE]

\* a document that holds an entry
populated_document(now) ==
    [schema_version |-> 1, updated_at |-> now,
     tokens |-> [token \in {<<"x">>} |-> [relationships |-> <<>>, cached_at |-> None]]]

empty_document(now) == [schema_version |-> 1, updated_at |-> now, tokens |-> <<>>]

\* every shard file is written, whether it exists or not
ensure_layout_overwrites(root, now) == [bg \in DOMAIN root |-> empty_document(now)]

\* creates every shard file that does not exist; keeps the others
ensure_layout(root, now) ==
    [bg \in DOMAIN root |-> IF root[bg] = Missing THEN empty_document(now) ELSE root[bg]]

\* the stored file is not read: a new empty structure every time
load_json_always_empty(root, bg, now) == empty_document(now)

load_json(root, bg, now) ==
    IF root[bg] = Missing THEN empty_document(now) ELSE root[bg]

----------------------------------------------------------------------------
(* Importer *)

\* the entry keyed by its raw token instead of the normalized one
to_shard_obj_raw_token(entry) ==
    LET token == Get(entry, "token", <<>>)
    IN IF normalize_token(token) = <<>> THEN <<(<<>>), <<>>>>
       ELSE <<token, [relationships |-> Get(entry, "relationships", <<>>),
                      cached_at |-> Get(entry, "cached_at", None)]>>

to_shard_obj(entry) ==
    LET token == normalize_token(Get(entry, "token", <<>>))
    IN IF token = <<>> THEN <<(<<>>), <<>>>>
       ELSE <<token, [relationships |-> Get(entry, "relationships", <<>>),
                      cached_at |-> Get(entry, "cached_at", None)]>>

\* the records of both arrays, one after the other
select_records_of_both(src) ==
    Get(src, "full_token_data", <<>>) \o Get(src, "tokens", <<>>)

\* src.get("full_token_data") or src.get("tokens") or []
select_records(src) ==
    IF Get(src, "full_token_data", <<>>) # <<>> THEN src.full_token_data
    ELSE Get(src, "tokens", <<>>)

\* bigram_bucket(token) called without the run's fallback letter
shard_key_default_fallback(token, fallback_letter) == bigram_bucket(token, "Z")[2]

\* folder, bigram = bigram_bucket(token, fallback_letter=fallback_letter)
\* shard_key = bigram
shard_key_of(token, fallback_letter) == bigram_bucket(token, fallback_letter)[2]

\* no record is skipped
skip_nothing(tok_obj) == FALSE

\* if not tok_obj: continue
skip_record(tok_obj) == tok_obj = <<>>

\* the loop over the records: run.raised when accum[shard_key] is a KeyError
RECURSIVE classify(_, _, _)
classify(run, full, fallback_letter) ==
    IF full = <<>> \/ run.raised THEN run
    ELSE LET obj == to_shard_obj(Head(full))
             token == obj[1]
             tok_obj == obj[2]
             shard_key == shard_key_of(token, fallback_letter)
         IN IF skip_record(tok_obj) THEN classify(run, Tail(full), fallback_letter)
            ELSE IF shard_key \notin DOMAIN run.accum
                 THEN [run EXCEPT !.raised = TRUE]
                 ELSE LET tokens == run.accum[shard_key].tokens
                          merged == merge_token(Get(tokens, token, <<>>), tok_obj)
                      IN classify(
                           [run EXCEPT
                              !.accum[shard_key].tokens =
                                  [t \in DOMAIN tokens \cup {token} |->
                                      IF t = token THEN merged ELSE tokens[t]],
                              !.count = @ + 1],
                           Tail(full), fallback_letter)

new_run(now) ==
    [accum |-> [bg \in BIGRAMS |-> empty_document(now)], count |-> 0, raised |-> FALSE]

\* only the shards that received a record of the run are written
write_shards_touched(root, accum, now) ==
    [bg \in DOMAIN root |->
        IF accum[bg].tokens = <<>> THEN root[bg]
        ELSE merge_shard(load_json(root, bg, now), accum[bg], now)]

\* the loop over ALPHABET x ALPHABET: every shard is loaded, merged and
\* replaced (atomic_write puts the merged document at the shard's path)
write_shards(root, accum, now) ==
    [bg \in DOMAIN root |-> merge_shard(load_json(root, bg, now), accum[bg], now)]

\* a source path with no file, and a file whose text json.load rejects
NoSourceFile == [exists |-> FALSE]

UnparsableFile == [exists |-> TRUE, parses |-> FALSE]

\* a file whose text is the JSON document src
JsonFile(src) == [exists |-> TRUE, parses |-> TRUE, value |-> src]

\* source_json.open("r") and json.load(handle): FileNotFoundError for a
\* missing file, json.JSONDecodeError for a text that is not JSON
read_source_raises(source_json) == ~source_json.exists \/ ~source_json.parses

\* ensure_layout comes first, then the source is read and classified, then
\* the shards are written; an exception leaves the root as it is at that point
import_source_into_remote(root, source_json, fallback_letter, now) ==
    LET laid == ensure_layout(root, now)
    IN IF read_source_raises(source_json)
       THEN [raised |-> TRUE, count |-> 0, root |-> laid]
       ELSE LET src == source_json.value
                run == classify(new_run(now), select_records(src), fallback_letter)
            IN [raised |-> run.raised,
                count |-> run.count,
                root |-> IF run.raised THEN laid
                         ELSE write_shards(laid, run.accum, now)]

----------------------------------------------------------------------------
(* Inputs of the import runs *)

Edge(token, weight) == [token |-> token, weight |-> weight]

\* the records an export is made of: the two of the test suite's sample
\* source, a second spelling of the first token with other weights, a token
\* that needs the fallback letter (twice), a blank token, a record with no
\* relationships field and a token that starts with a non-ASCII letter
SampleRecords ==
    { [token |-> <<"a", "l">>,
       relationships |->
           [rel1 |-> <<Edge(<<"g">>, 1), Edge(<<"b">>, 2)>>,
            rel2 |-> <<Edge(<<"t">>, 1), Edge(<<"e">>, 1)>>],
       cached_at |-> 1],
      [token |-> <<" ", "a", "l", "\t">>,
       relationships |->
           [rel1 |-> <<Edge(<<"g">>, 2), Edge(<<"g">>, 1), Edge(<<"a">>, 2)>>],
       cached_at |-> 2],
      [token |-> <<"7", "z">>,
       relationships |->
           [rel1 |-> <<Edge(<<"b">>, 1), Edge(<<>>, 2), [token |-> <<"e">>]>>],
       cached_at |-> None],
      [token |-> <<"7", "z">>,
       relationships |-> [rel1 |-> <<Edge(<<"b">>, 2), [weight |-> 1]>>],
       cached_at |-> 1],
      [token |-> <<" ", "\t">>,
       cached_at |-> 1],
      [token |-> <<"é", "t">>,
       relationships |-> [rel1 |-> <<Edge(<<"b">>, 1)>>]] }

RECURSIVE SeqsUpTo(_, _)
SeqsUpTo(S, n) ==
    IF n = 0 THEN {<<>>}
    ELSE LET shorter == SeqsUpTo(S, n - 1)
         IN shorter \cup {Append(q, x) : q \in shorter, x \in S}

\* the source exports: a tokens array of up to MaxRecords records
Exports == {[tokens |-> full] : full \in SeqsUpTo(SampleRecords, MaxRecords)}

\* exports that have no token array, both arrays, an empty full_token_data
\* next to a tokens array, and full_token_data alone
FieldExports ==
    LET al == [token |-> <<"a", "l">>,
               relationships |-> [rel1 |-> <<Edge(<<"b">>, 1)>>]]
        sz == [token |-> <<"7", "z">>,
               relationships |-> [rel1 |-> <<Edge(<<"g">>, 1)>>]]
    IN { <<>>,
         [export_timestamp |-> 1],
         [full_token_data |-> <<al>>, tokens |-> <<sz>>],
         [full_token_data |-> <<>>, tokens |-> <<sz>>],
         [full_token_data |-> <<al, sz>>] }

\* the source files a run is pointed at
SourceFiles ==
    {NoSourceFile, UnparsableFile} \cup {JsonFile(src) : src \in Exports \cup FieldExports}

\* the fallback letters the runs are given (--fallback-letter, choices=ALPHABET)
FallbackLetters == {"Z", "Q"}

\* The shard files the model keeps: those a record of the exports can be
\* routed to, and one more.  The importer loads, merges and replaces each
\* shard file on its own, so every other file of the root goes through what
\* an untouched file of this set goes through.
Shards ==
    ({bigram_bucket(Get(entry, "token", <<>>), fallback_letter)[2] :
         entry \in SampleRecords, fallback_letter \in FallbackLetters}
     \cup {<<"A", "A">>}) \cap BIGRAMS

\* the edges a record gives: (normalized token, relation, neighbor, weight)
record_edges(entry) ==
    LET token == normalize_token(Get(entry, "token", <<>>))
        rels == Get(entry, "relationships", <<>>)
    IN IF token = <<>> THEN {}
       ELSE UNION { { <<token, r, rels[r][j].token, Get(rels[r][j], "weight", 0)>> :
                        j \in {k \in DOMAIN rels[r] :
                                 Get(rels[r][k], "token", <<>>) # <<>>} } :
                    r \in DOMAIN rels }

given_edges(src) ==
    LET full == select_records(src)
    IN UNION {record_edges(full[i]) : i \in DOMAIN full}

\* the normalized, non-empty tokens of the records of an array of an export
list_tokens(full) ==
    {normalize_token(Get(full[i], "token", <<>>)) : i \in DOMAIN full} \ {<<>>}

\* the normalized, non-empty tokens of the records of an export
record_tokens(src) == list_tokens(select_records(src))

\* the records of an export whose token is empty or whitespace only, and the
\* other records
blank_records(src) ==
    LET full == select_records(src)
    IN {i \in DOMAIN full : normalize_token(Get(full[i], "token", <<>>)) = <<>>}

nonblank_records(src) == DOMAIN select_records(src) \ blank_records(src)

\* what the source file of a run is: missing, unparsable, or a JSON document
\* with its token-array fields, their lengths and their tokens
describe_source(source_json) ==
    IF ~source_json.exists THEN [kind |-> "missing"]
    ELSE IF ~source_json.parses THEN [kind |-> "unparsable"]
    ELSE LET src == source_json.value
         IN [kind |-> "json",
             fields |-> DOMAIN src \cap {"full_token_data", "tokens"},
             full_len |-> Len(Get(src, "full_token_data", <<>>)),
             full_tokens |-> list_tokens(Get(src, "full_token_data", <<>>)),
             tokens_tokens |-> list_tokens(Get(src, "tokens", <<>>))]

----------------------------------------------------------------------------
(* The import pipeline as a state machine: one shard root, sequential runs *)

NoRun == [op |-> "none"]

NoRerun == [stage |-> "none"]

\* the tokens mapping of the shard file bg of a root (empty when there is no file)
tokens_of(root, bg) == IF root[bg] = Missing THEN <<>> ELSE root[bg].tokens

\* the (shard, token) pairs a root stores
stored_tokens(root) ==
    {st \in Shards \X UNION {DOMAIN tokens_of(root, bg) : bg \in Shards} :
        st[2] \in DOMAIN tokens_of(root, st[1])}

\* the step-by-step file system when it is not in use, and a run that has
\* not started
NoFiles == [link |-> <<>>, data |-> <<>>]

IdleRun == [pc |-> "idle"]

\* no loader object has been constructed; the chunks directory does not exist
NoLoader == [made |-> FALSE]

NoDirectory == [exists |-> FALSE]

\* a result that has not been computed yet
NotRun == [done |-> FALSE]

\* the shard root before anything ran: no file
InitRoot ==
    /\ disk = [bg \in Shards |-> Missing]
    /\ clock = 1
    /\ lastRun = NoRun
    /\ imported = {}
    /\ fallbacks = {}
    /\ rerun = NoRerun
    /\ fsys = NoFiles
    /\ runs = [r \in {1, 2} |-> IdleRun]
    /\ loader = NoLoader
    /\ chunks = NoDirectory

InitBucketArgs ==
    /\ inTok = <<>>
    /\ inFb = "Z"
    /\ outBucket = NotRun

InitMergeArgs ==
    /\ inA = <<>>
    /\ inB = <<>>
    /\ outAB = NotRun
    /\ outBA = NotRun

Init == mode = "import" /\ InitRoot /\ InitBucketArgs /\ InitMergeArgs

\* main(["--init-layout"])
InitLayout ==
    /\ mode \in {"import", "reimport"}
    /\ rerun = NoRerun
    /\ clock < MaxClock
    /\ disk' = ensure_layout(disk, clock)
    /\ clock' = clock + 1
    /\ lastRun' = [op |-> "init-layout"]
    /\ UNCHANGED <<imported, fallbacks, rerun, mode,
                   inTok, inFb, outBucket, inA, inB, outAB, outBA>>
    /\ UNCHANGED <<fsys, runs, loader, chunks>>

\* one run of import_source_into_remote(source_json, remote_root, fallback_letter)
\* on the root, from its first line to its return or to the exception
RunImport(source_json, fallback_letter, run) ==
    /\ disk' = run.root
    /\ clock' = clock + 1
    /\ lastRun' = [op |-> "import", fallback_letter |-> fallback_letter,
                   raised |-> run.raised, count |-> run.count,
                   source |-> describe_source(source_json),
                   tokens |-> IF run.raised THEN {}
                              ELSE record_tokens(source_json.value),
                   nonblank |-> IF run.raised THEN 0
                                ELSE Cardinality(nonblank_records(source_json.value)),
                   blank |-> IF run.raised THEN 0
                             ELSE Cardinality(blank_records(source_json.value)),
                   stored_before |-> Cardinality(stored_tokens(disk))]
    /\ imported' = IF run.raised THEN imported
                   ELSE imported \cup given_edges(source_json.value)
    /\ fallbacks' = IF run.raised THEN fallbacks ELSE fallbacks \cup {fallback_letter}
    /\ UNCHANGED <<mode, inTok, inFb, outBucket, inA, inB, outAB, outBA>>
    /\ UNCHANGED <<fsys, runs, loader, chunks>>

\* chunker.load_database(db_path): the export is read and validated
load_database(db_path) ==
    IF ~db_path.exists THEN [raised |-> TRUE, error |-> "FileNotFoundError"]
    ELSE IF ~db_path.parses THEN [raised |-> TRUE, error |-> "JSONDecodeError"]
    ELSE IF Get(db_path.value, "full_token_data", <<>>) = <<>>
         THEN [raised |-> TRUE, error |-> "ValueError"]
         ELSE [raised |-> FALSE, value |-> db_path.value]

\* the prefix chunker loads an export; the shard root is not involved
LoadDatabase(db_path) ==
    /\ mode = "source"
    /\ lastRun.op # "load_database"
    /\ lastRun' = [op |-> "load_database",
                   raised |-> load_database(db_path).raised,
                   source |-> describe_source(db_path)]
    /\ UNCHANGED <<disk, clock, imported, fallbacks, rerun, mode,
                   inTok, inFb, outBucket, inA, inB, outAB, outBA>>
    /\ UNCHANGED <<fsys, runs, loader, chunks>>

\* the importer is run on an export with a fallback letter
Import(source_json, fallback_letter) ==
    /\ mode \in {"import", "reimport"}
    /\ rerun = NoRerun
    /\ clock < MaxClock
    /\ \E run \in {import_source_into_remote(disk, source_json, fallback_letter, clock)} :
          RunImport(source_json, fallback_letter, run)
    /\ UNCHANGED rerun

Next ==
    \/ InitLayout
    \/ \E source_json \in SourceFiles, fallback_letter \in FallbackLetters :
           Import(source_json, fallback_letter)

Spec == Init /\ [][Next]_vars

----------------------------------------------------------------------------
(* The same import run twice in a row *)

InitReimport == mode = "reimport" /\ InitRoot /\ InitBucketArgs /\ InitMergeArgs

\* an import whose export and fallback letter are used again by the next run
FirstImport(source_json, fallback_letter) ==
    /\ mode = "reimport"
    /\ rerun = NoRerun
    /\ clock + 1 < MaxClock
    /\ \E run \in {import_source_into_remote(disk, source_json, fallback_letter, clock)} :
          RunImport(source_json, fallback_letter, run)
    /\ rerun' = [stage |-> "first", src |-> source_json,
                 fallback_letter |-> fallback_letter]

\* the second run with the same export on the root the first run left
SecondImport ==
    /\ mode = "reimport"
    /\ rerun.stage = "first"
    /\ clock < MaxClock
    /\ \E run \in {import_source_into_remote(disk, rerun.src, rerun.fallback_letter, clock)} :
          RunImport(rerun.src, rerun.fallback_letter, run)
    /\ rerun' = [rerun EXCEPT !.stage = "second"]

NextReimport ==
    \/ InitLayout
    \/ \E source_json \in SourceFiles, fallback_letter \in FallbackLetters :
           Import(source_json, fallback_letter)
    \/ \E source_json \in SourceFiles, fallback_letter \in FallbackLetters :
           FirstImport(source_json, fallback_letter)
    \/ SecondImport

SpecReimport == InitReimport /\ [][NextReimport]_vars

----------------------------------------------------------------------------
(* Claims about single steps of the import pipeline, checked under Spec *)

\* the step is an import run that returned
completed_import_step ==
    clock' = clock + 1 /\ lastRun'.op = "import" /\ ~lastRun'.raised

\* a record of the run that made the step was routed to the shard
received_record(bg) ==
    \E token \in lastRun'.tokens :
        shard_key_of(token, lastRun'.fallback_letter) = bg

\* C21: every import run that completes persists every shard (each carries
\* the run's updated_at), and a shard whose bucket received no record of the
\* run has the tokens content it had before the run.
C21_EveryShardPersisted ==
    [][completed_import_step =>
          \A bg \in Shards :
              /\ disk'[bg] # Missing
              /\ disk'[bg].updated_at = clock
              /\ ~received_record(bg) => disk'[bg].tokens = tokens_of(disk, bg)]_vars

\* a run whose only token went to ZZ has rewritten the shard AL, which holds
\* the tokens an earlier run stored
C21_Witness ==
    /\ lastRun.op = "import"
    /\ ~lastRun.raised
    /\ lastRun.tokens = {<<"7", "z">>}
    /\ lastRun.fallback_letter = "Z"
    /\ lastRun.stored_before > 0
    /\ disk[<<"A", "L">>].tokens # <<>>
    /\ disk[<<"A", "L">>].updated_at = clock - 1

\* C23: after ensure_layout(root) every shard path exists; each shard file it
\* created holds an empty document (schema_version 1, no tokens) and each
\* shard file that existed has the content it had.
C23_LayoutCreatesAndKeeps ==
    [][(clock' = clock + 1 /\ lastRun'.op = "init-layout") =>
          \A bg \in Shards :
              /\ disk'[bg] # Missing
              /\ disk[bg] = Missing =>
                     /\ disk'[bg].schema_version = 1
                     /\ disk'[bg].tokens = <<>>
              /\ disk[bg] # Missing => disk'[bg] = disk[bg]]_vars

\* the layout was created again on a root whose shard AL had been populated
\* by an import two runs earlier: the shard is as that import left it
C23_Witness ==
    /\ lastRun.op = "init-layout"
    /\ disk[<<"A", "L">>] # Missing
    /\ <<"a", "l">> \in DOMAIN disk[<<"A", "L">>].tokens
    /\ disk[<<"A", "L">>].updated_at < clock - 1
    /\ disk[<<"A", "A">>].tokens = <<>>

\* C22: the count an import run reports is the number of export records
\* whose normalized token is not empty; a record with an empty or
\* whitespace-only token is not counted, and no shard stores a key that is
\* empty or whitespace only.
C22_CountIsNonBlankRecords ==
    (lastRun.op = "import" /\ ~lastRun.raised) =>
        /\ lastRun.count = lastRun.nonblank
        /\ \A bg \in Shards : \A token \in DOMAIN tokens_of(disk, bg) :
               normalize_token(token) # <<>>

\* an export of one blank record and one other record was imported: count 1
C22_Witness ==
    /\ lastRun.op = "import"
    /\ ~lastRun.raised
    /\ lastRun.blank = 1
    /\ lastRun.nonblank = 1
    /\ lastRun.count = 1
    /\ lastRun.tokens = {<<"a", "l">>}
    /\ DOMAIN disk[<<"A", "L">>].tokens = {<<"a", "l">>}

----------------------------------------------------------------------------
(* One source file handed to the bigram importer or to the prefix chunker *)

InitSource == mode = "source" /\ InitRoot /\ InitBucketArgs /\ InitMergeArgs

\* the importer is run once, on a root without shard files
ImportSource(source_json, fallback_letter) ==
    /\ mode = "source"
    /\ clock = 1
    /\ \E run \in {import_source_into_remote(disk, source_json, fallback_letter, clock)} :
          RunImport(source_json, fallback_letter, run)
    /\ UNCHANGED rerun

NextSource ==
    \/ \E source_json \in SourceFiles, fallback_letter \in FallbackLetters :
           ImportSource(source_json, fallback_letter)
    \/ \E db_path \in SourceFiles : LoadDatabase(db_path)

SpecSource == InitSource /\ [][NextSource]_vars

----------------------------------------------------------------------------
(* Claims about the stored shards, checked under Spec *)

\* the weights the imported records give for (token, relation, neighbor)
given_weights(token, rel, neighbor) ==
    {e[4] : e \in {g \in imported : g[1] = token /\ g[2] = rel /\ g[3] = neighbor}}

\* a list holds each neighbor once, with the largest weight given for it
list_is_max_of_given(token, rel, list) ==
    /\ \A i, j \in DOMAIN list : list[i].token = list[j].token => i = j
    /\ \A i \in DOMAIN list :
          /\ given_weights(token, rel, list[i].token) # {}
          /\ list[i].weight = SetMax(given_weights(token, rel, list[i].token))

stored_lists_are_max_of_given ==
    \A st \in stored_tokens(disk) :
        LET rels == tokens_of(disk, st[1])[st[2]].relationships
        IN \A rel \in DOMAIN rels : list_is_max_of_given(st[2], rel, rels[rel])

\* C1 as stated: after any sequence of import runs every stored relationship
\* list holds each neighbor at most once, with the maximum of all the weights
\* the records imported so far give for that (token, relation, neighbor).
C1_AnyRuns == stored_lists_are_max_of_given

\* C1 as amended: the same, after any sequence of import runs that were all
\* given the same fallback letter.
C1_StoredWeightIsMaxOfGiven ==
    Cardinality(fallbacks) <= 1 => stored_lists_are_max_of_given

\* a neighbor that the records gave two different weights is stored after an
\* import on a root that held tokens, and all runs had one fallback letter
C1_Witness ==
    /\ Cardinality(fallbacks) = 1
    /\ lastRun.op = "import"
    /\ lastRun.stored_before > 0
    /\ \E st \in stored_tokens(disk) :
          LET rels == tokens_of(disk, st[1])[st[2]].relationships
          IN \E rel \in DOMAIN rels :
                \E i \in DOMAIN rels[rel] :
                    Cardinality(given_weights(st[2], rel, rels[rel][i].token)) >= 2

\* what a root keeps of another: every token, relationship name and neighbor,
\* with a weight that is not smaller
keeps_all(before, after) ==
    \A st \in stored_tokens(before) :
        /\ st \in stored_tokens(after)
        /\ LET old == tokens_of(before, st[1])[st[2]].relationships
               new == tokens_of(after, st[1])[st[2]].relationships
           IN \A rel \in DOMAIN old :
                 /\ rel \in DOMAIN new
                 /\ \A i \in DOMAIN old[rel] :
                       \E j \in DOMAIN new[rel] :
                           /\ new[rel][j].token = old[rel][i].token
                           /\ new[rel][j].weight >= old[rel][i].weight

\* C2: across any sequence of runs on one root no stored token, relationship
\* name or neighbor is ever removed and no stored weight ever decreases.
C2_ImportsAccumulate == [][keeps_all(disk, disk')]_vars

\* an import that stored records ran on a root that already held tokens and
\* added a token to it
C2_Witness ==
    /\ lastRun.op = "import"
    /\ ~lastRun.raised
    /\ lastRun.count > 0
    /\ lastRun.stored_before > 0
    /\ Cardinality(stored_tokens(disk)) > lastRun.stored_before

\* C7: a second run of import_source_into_remote with the same export on the
\* root the first run populated leaves the tokens content of every shard
\* unchanged (updated_at may differ).
C7_ReimportChangesNothing ==
    [][(rerun.stage = "first" /\ rerun'.stage = "second") =>
          \A bg \in Shards : tokens_of(disk', bg) = tokens_of(disk, bg)]_vars

\* the second run of an export that stores records has completed, on a root
\* that held tokens of an earlier export too
C7_Witness ==
    /\ rerun.stage = "second"
    /\ ~lastRun.raised
    /\ lastRun.count = 2
    /\ Cardinality(stored_tokens(disk)) >= 2
    /\ \E bg \in Shards : disk[bg] # Missing /\ disk[bg].updated_at = 3

\* the shards that hold a token
shards_holding(token) == {bg \in Shards : token \in DOMAIN tokens_of(disk, bg)}

all_tokens_stored == UNION {DOMAIN tokens_of(disk, bg) : bg \in Shards}

\* C10 as stated: whatever the runs' arguments, a token is stored in at most
\* one shard after any sequence of import runs on one root.
C10_AnyArguments == \A token \in all_tokens_stored : Cardinality(shards_holding(token)) <= 1

\* C10 as amended: runs that are given the same fallback letter assign a token
\* the same bucket, so after any sequence of runs that were all given one
\* fallback letter a token is stored in at most one shard, the one of its bucket.
C10_OneShardPerToken ==
    Cardinality(fallbacks) <= 1 =>
        \A token \in all_tokens_stored :
            /\ Cardinality(shards_holding(token)) <= 1
            /\ shards_holding(token) \subseteq
                   {bigram_bucket(token, fallback_letter)[2] : fallback_letter \in fallbacks}

\* two runs with the one fallback letter Q stored a token that needs it
C10_Witness ==
    /\ fallbacks = {"Q"}
    /\ lastRun.op = "import"
    /\ lastRun.stored_before > 0
    /\ lastRun.count > 0
    /\ shards_holding(<<"7", "z">>) = {<<"Q", "Z">>}

\* every record of the last run's export is stored under its normalized
\* token in the shard of its bucket
records_are_placed ==
    \A token \in lastRun.tokens :
        LET bg == bigram_bucket(token, lastRun.fallback_letter)[2]
        IN bg \in Shards /\ token \in DOMAIN tokens_of(disk, bg)

\* every token key of every shard file (the run rewrote each of them) has
\* the shard as its bucket
keys_belong_to_shard ==
    \A bg \in Shards :
        \A token \in DOMAIN tokens_of(disk, bg) :
            bigram_bucket(token, lastRun.fallback_letter)[2] = bg

\* C11 as stated: after import_source_into_remote completes, every export
\* record with a non-empty normalized token is stored under that token in the
\* shard file of its bucket, and every token key held by a shard written in
\* the run belongs to that shard's bucket.
C11_PlacedAndBelonging ==
    (lastRun.op = "import" /\ ~lastRun.raised) =>
        records_are_placed /\ keys_belong_to_shard

\* C11 as amended: the records are stored in the shard of their bucket under
\* the run's fallback letter, and the token keys of the shards belong to
\* their shard's bucket when every run on the root was given that letter.
C11_RecordsStoredInBucket ==
    (lastRun.op = "import" /\ ~lastRun.raised) =>
        /\ records_are_placed
        /\ Cardinality(fallbacks) <= 1 => keys_belong_to_shard

\* a run with fallback letter Q stored two records, one of them through the
\* fallback letter, on a root that held tokens
C11_Witness ==
    /\ lastRun.op = "import"
    /\ ~lastRun.raised
    /\ lastRun.fallback_letter = "Q"
    /\ fallbacks = {"Q"}
    /\ lastRun.tokens = {<<"a", "l">>, <<"7", "z">>}
    /\ lastRun.stored_before > 0
    /\ <<"7", "z">> \in DOMAIN tokens_of(disk, <<"Q", "Z">>)
    /\ <<"a", "l">> \in DOMAIN tokens_of(disk, <<"A", "L">>)

\* the step is a run of import_source_into_remote that raised
failed_import_step ==
    /\ clock' = clock + 1
    /\ lastRun'.op = "import"
    /\ lastRun'.raised

\* C18 as stated: an import run that fails (missing source file, unparsable
\* JSON, an error while classifying records) creates no shard file and
\* modifies none.
C18_FailedRunWritesNothing == [][failed_import_step => disk' = disk]_vars

\* C18 as amended: a failed import run modifies no shard file that exists and
\* stores no token; the only files it writes are the missing shard files,
\* which ensure_layout creates as empty documents before the source is read.
C18_FailedRunKeepsShards ==
    [][failed_import_step =>
          \A bg \in Shards :
              /\ disk[bg] # Missing => disk'[bg] = disk[bg]
              /\ disk[bg] = Missing =>
                    /\ disk'[bg] # Missing
                    /\ disk'[bg].tokens = <<>>]_vars

\* a run whose source file is not JSON failed on a root that holds tokens
C18_Witness ==
    /\ lastRun.op = "import"
    /\ lastRun.raised
    /\ lastRun.source.kind = "unparsable"
    /\ lastRun.stored_before > 0
    /\ Cardinality(stored_tokens(disk)) = lastRun.stored_before

\* C19: an export that parses as JSON but has no token-array field is a fatal
\* error: load_database (prefix chunker) and import_source_into_remote
\* (bigram importer) both raise instead of completing.
C19_MissingFieldIsFatal ==
    (/\ lastRun.op \in {"import", "load_database"}
     /\ lastRun.source.kind = "json"
     /\ lastRun.source.fields = {}) => lastRun.raised

\* the last run stored the records of the given tokens: each of them is
\* stored, and nothing else is when the root held no token before
taken_from(tokens) ==
    /\ tokens \subseteq all_tokens_stored
    /\ lastRun.stored_before = 0 => all_tokens_stored = tokens

\* C20 as stated: when the export has a full_token_data field the importer
\* takes its records from that field only; it reads tokens only when
\* full_token_data is absent, and never merges the two.
C20_FieldPresentWins ==
    (lastRun.op = "import" /\ ~lastRun.raised) =>
        IF "full_token_data" \in lastRun.source.fields
        THEN taken_from(lastRun.source.full_tokens)
        ELSE taken_from(lastRun.source.tokens_tokens)

\* C20 as amended: when the export has a non-empty full_token_data array the
\* importer takes its records from that field only; it reads tokens only when
\* full_token_data is absent or empty, and never merges the two.
C20_NonEmptyFieldWins ==
    (lastRun.op = "import" /\ ~lastRun.raised) =>
        IF lastRun.source.full_len > 0
        THEN taken_from(lastRun.source.full_tokens)
        ELSE taken_from(lastRun.source.tokens_tokens)

\* an export with both arrays was imported into a root without tokens and
\* only the record of full_token_data is stored
C20_Witness ==
    /\ lastRun.op = "import"
    /\ ~lastRun.raised
    /\ lastRun.source.fields = {"full_token_data", "tokens"}
    /\ lastRun.source.full_len > 0
    /\ lastRun.source.tokens_tokens = {<<"7", "z">>}
    /\ lastRun.stored_before = 0
    /\ all_tokens_stored = {<<"a", "l">>}

----------------------------------------------------------------------------
(* bigram_bucket as a function: every bounded token and fallback letter *)

\* the characters raw tokens are made of
TokenChars == {"a", "L", "7", "?", " ", "é"}

\* the tokens of the test suite and of the documentation
ExampleTokens ==
    { <<"A", "l", "p", "h", "a">>, <<"b", "e", "t", "a">>,
      <<"?", "h", "e", "l", "l", "o">>, <<"7", "z", "i", "p">>,
      <<"#", "h", "a", "s", "h">>, <<"\t", "A", " ", "\t", "b">> }

BucketTokens == SeqsUpTo(TokenChars, MaxTokenLen) \cup ExampleTokens

InitBucket ==
    /\ mode = "bucket"
    /\ InitRoot
    /\ InitMergeArgs
    /\ inTok \in BucketTokens
    /\ inFb \in Range(ALPHABET)
    /\ outBucket = NotRun

CallBigramBucket ==
    /\ mode = "bucket"
    /\ outBucket = NotRun
    /\ outBucket' = [done |-> TRUE, value |-> bigram_bucket(inTok, inFb)]
    /\ UNCHANGED <<disk, clock, lastRun, imported, fallbacks, rerun, mode,
                   inTok, inFb, inA, inB, outAB, outBA>>
    /\ UNCHANGED <<fsys, runs, loader, chunks>>

SpecBucket == InitBucket /\ [][CallBigramBucket]_vars

\* C8: for every token and every fallback letter in A-Z the bucket identifier
\* bigram_bucket returns is one of the 676 identifiers AA-ZZ (so the importer
\* finds accum[shard_key] and a shard path for it).
C8_BucketInBigrams ==
    outBucket.done =>
        /\ outBucket.value[2] \in BIGRAMS
        /\ outBucket.value[2] \in DOMAIN new_run(clock).accum

----------------------------------------------------------------------------
(* merge_relationship_lists as a function: every bounded pair of edge lists *)

\* the edges of the lists: two neighbors with every weight, an edge with an
\* empty neighbor token and one with no token key
EdgeChoices ==
    {Edge(neighbor, weight) : neighbor \in {<<"a">>, <<"b">>}, weight \in 1..MaxWeight}
    \cup {Edge(<<>>, 1), [weight |-> 1]}

EdgeLists == SeqsUpTo(EdgeChoices, MaxEdges)

call_merge_relationship_lists(dst_list, src_list) ==
    IF merge_relationship_lists_raises(dst_list, src_list)
    THEN [done |-> TRUE, raised |-> TRUE]
    ELSE [done |-> TRUE, raised |-> FALSE,
          value |-> merge_relationship_lists(dst_list, src_list)]

InitMergeLists ==
    /\ mode = "lists"
    /\ InitRoot
    /\ InitBucketArgs
    /\ inA \in EdgeLists
    /\ inB \in EdgeLists
    /\ outAB = NotRun
    /\ outBA = NotRun

CallMergeRelationshipLists ==
    /\ mode = "lists"
    /\ outAB = NotRun
    /\ outAB' = call_merge_relationship_lists(inA, inB)
    /\ outBA' = call_merge_relationship_lists(inB, inA)
    /\ UNCHANGED <<disk, clock, lastRun, imported, fallbacks, rerun, mode,
                   inTok, inFb, outBucket, inA, inB>>
    /\ UNCHANGED <<fsys, runs, loader, chunks>>

SpecMergeLists == InitMergeLists /\ [][CallMergeRelationshipLists]_vars

\* descending weight, and ascending neighbor token among equal weights
is_ordered(list) ==
    \A i \in DOMAIN list : \A j \in DOMAIN list :
        i < j => \/ list[i].weight > list[j].weight
                 \/ /\ list[i].weight = list[j].weight
                    /\ ~StrLess(list[j].token, list[i].token)

\* C3: every list merge_relationship_lists returns is ordered by descending
\* weight and, among edges of equal weight, by ascending neighbor token.
C3_MergedListIsOrdered ==
    (outAB.done /\ ~outAB.raised) => is_ordered(outAB.value)

\* two neighbors of equal weight were given in descending token order and
\* came out in ascending order
C3_Witness ==
    /\ outAB.done
    /\ inA = <<>>
    /\ inB = <<Edge(<<"b">>, 1), Edge(<<"a">>, 1)>>
    /\ outAB.value = <<Edge(<<"a">>, 1), Edge(<<"b">>, 1)>>

\* the (neighbor, weight) pairs of a list
pairs_of(list) == {<<list[i].token, list[i].weight>> : i \in DOMAIN list}

\* C4: for all edge lists A and B, merge_relationship_lists(A, B) and
\* merge_relationship_lists(B, A) hold the same set of (neighbor, weight)
\* pairs (stated for the calls that return in both orders).
C4_MergeCommutes ==
    (outAB.done /\ ~outAB.raised /\ ~outBA.raised) =>
        pairs_of(outAB.value) = pairs_of(outBA.value)

\* C13: the list merge_relationship_lists returns never contains an edge
\* with an empty or missing neighbor token, whichever input list the edge came
\* from, and such an edge never makes the merge fail.
C13_NoEmptyNeighbor ==
    outAB.done =>
        /\ ~outAB.raised
        /\ \A i \in DOMAIN outAB.value :
              /\ "token" \in DOMAIN outAB.value[i]
              /\ outAB.value[i].token # <<>>

----------------------------------------------------------------------------
(* merge_token as a function: bounded token entries *)

\* a cached_at that is a JSON number and not a timestamp string
NotAString == -1

\* relationship lists of token entries, stored or not: up to MaxEdges edges
\* over two neighbors, in any order and with repeated neighbors
EntryLists ==
    SeqsUpTo({Edge(neighbor, weight) :
                 neighbor \in {<<"a">>, <<"b">>}, weight \in 1..MaxWeight}, MaxEdges)

RelationshipMaps ==
    {<<>>} \cup {[rel1 |-> list] : list \in EntryLists}
           \cup {[rel1 |-> list, rel2 |-> <<Edge(<<"b">>, 1)>>] : list \in EntryLists}

TokenEntries ==
    {[relationships |-> rels, cached_at |-> ts] :
        rels \in RelationshipMaps, ts \in {None} \cup (1..MaxStamp)}

\* an entry with no relationships and no cached_at: the explicit one, and {}
EmptyEntries == {[relationships |-> <<>>, cached_at |-> None], <<>>}

\* the second argument: the first one again, an empty entry, or an entry of
\* another relationship list and another timestamp (or a cached_at that is
\* not a string)
OtherEntries ==
    EmptyEntries \cup
    {[relationships |-> [rel1 |-> <<Edge(<<"b">>, 2), Edge(<<"a">>, 1)>>], cached_at |-> ts] :
        ts \in {None, NotAString} \cup (1..MaxStamp)}

call_merge_token(dst_tok_obj, src_tok_obj) ==
    IF merge_token_raises(dst_tok_obj, src_tok_obj)
    THEN [done |-> TRUE, raised |-> TRUE]
    ELSE [done |-> TRUE, raised |-> FALSE, value |-> merge_token(dst_tok_obj, src_tok_obj)]

InitMergeTokens ==
    /\ mode = "tokens"
    /\ InitRoot
    /\ InitBucketArgs
    /\ inA \in TokenEntries \cup EmptyEntries
    /\ inB \in {inA} \cup OtherEntries
    /\ outAB = NotRun
    /\ outBA = NotRun

CallMergeToken ==
    /\ mode = "tokens"
    /\ outAB = NotRun
    /\ outAB' = call_merge_token(inA, inB)
    /\ outBA' = call_merge_token(inB, inA)
    /\ UNCHANGED <<disk, clock, lastRun, imported, fallbacks, rerun, mode,
                   inTok, inFb, outBucket, inA, inB>>
    /\ UNCHANGED <<fsys, runs, loader, chunks>>

SpecMergeTokens == InitMergeTokens /\ [][CallMergeToken]_vars

\* a relationship list in stored form (section 3, TokenEntry): every edge has
\* a non-empty neighbor token and a weight, no neighbor repeats, and the
\* edges are in the stored order
is_stored_list(list) ==
    /\ \A i \in DOMAIN list :
          /\ DOMAIN list[i] = {"token", "weight"}
          /\ list[i].token # <<>>
    /\ \A i, j \in DOMAIN list : list[i].token = list[j].token => i = j
    /\ is_ordered(list)

\* a token entry in stored form
is_stored_entry(x) ==
    LET rels == Get(x, "relationships", <<>>)
    IN \A rel \in DOMAIN rels : is_stored_list(rels[rel])

\* equal in relationship names, neighbors, weights, edge order and cached_at
same_content(x, y) ==
    /\ Get(x, "relationships", <<>>) = Get(y, "relationships", <<>>)
    /\ Get(x, "cached_at", None) = Get(y, "cached_at", None)

----------------------------------------------------------------------------
(* The runs step by step: paths, files, and one step per file operation.    *)
(* A path is linked to a file or to nothing; a file holds the chunks that   *)
(* were written to it.  json.dump reaches the file in more than one write,  *)
(* modelled as two chunks; a text is a JSON document when it is exactly the *)
(* two chunks of one document.  A reader of a path reads the file the path  *)
(* is linked to at that moment.                                             *)

\* the shard files of the step-by-step model, in the order of the write loop
WriteShards == << <<"A", "L">>, <<"Z", "Z">> >>

WriteShardSet == Range(WriteShards)

\* remote_root / a / f"{shard_name}.json"
shard_path(bg) == <<"json", bg>>

\* the temporary path is the final path itself
with_suffix_same(path) == path

\* path.with_suffix(path.suffix + ".tmp")
with_suffix_tmp(path) == <<"json.tmp", path[2]>>

NoInode == [exists |-> FALSE]

Hole == [part |-> 0]

\* json.dumps(doc), as the chunks that reach the file
text_of(doc) == <<[doc |-> doc, part |-> 1], [doc |-> doc, part |-> 2]>>

\* json.load accepts the text
is_document(content) == Len(content) = 2 /\ "doc" \in DOMAIN content[1]
                        /\ content = text_of(content[1].doc)

parse(content) == content[1].doc

path_exists(fs, path) == path \in DOMAIN fs.link

\* what a reader of the path gets
read_path(fs, path) == fs.data[fs.link[path]]

\* open(path, "w"): truncates the file the path is linked to, or creates one
open_w(fs, path, inode) ==
    IF path_exists(fs, path)
    THEN [fs EXCEPT !.data[fs.link[path]] = <<>>]
    ELSE [link |-> [q \in DOMAIN fs.link \cup {path} |->
                       IF q = path THEN inode ELSE fs.link[q]],
          data |-> [n \in DOMAIN fs.data \cup {inode} |->
                       IF n = inode THEN <<>> ELSE fs.data[n]]]

\* the file a handle opened on the path is attached to
opened_inode(fs, path, inode) == IF path_exists(fs, path) THEN fs.link[path] ELSE inode

\* handle.write at the handle's own offset; a file that was unlinked and
\* dropped takes no more writes
file_write(fs, inode, pos, chunk) ==
    IF inode \notin DOMAIN fs.data THEN fs
    ELSE LET content == fs.data[inode]
             padded == IF Len(content) >= pos THEN content
                       ELSE content \o [k \in 1..(pos - Len(content)) |-> Hole]
         IN [fs EXCEPT !.data[inode] = [padded EXCEPT ![pos] = chunk]]

\* unlink without the rename: the final path keeps its file
os_replace_drops_tmp(fs, tmp, path) ==
    [link |-> [q \in DOMAIN fs.link \ {tmp} |-> fs.link[q]],
     data |-> [n \in DOMAIN fs.data \ {fs.link[tmp]} |-> fs.data[n]]]

\* os.replace(tmp, path): the final path is linked to the temporary file, the
\* temporary path is gone and the file the final path had is dropped
os_replace(fs, tmp, path) ==
    LET moved == fs.link[tmp]
        links == [q \in (DOMAIN fs.link \ {tmp}) \cup {path} |->
                     IF q = path THEN moved ELSE fs.link[q]]
    IN [link |-> links,
        data |-> [n \in {links[q] : q \in DOMAIN links} |-> fs.data[n]]]

\* the files of a root, each complete
files_of(root) ==
    LET present == {bg \in WriteShardSet : root[bg] # Missing}
    IN [link |-> [path \in {shard_path(bg) : bg \in present} |->
                     [by |-> 0, bg |-> path[2], kind |-> "json"]],
        data |-> [n \in {[by |-> 0, bg |-> bg, kind |-> "json"] : bg \in present} |->
                     text_of(root[n.bg])]]

\* the records of the exports of the step-by-step runs: two tokens of the
\* shard AL and one of the shard ZZ
RecAl == [token |-> <<"a", "l">>, relationships |-> [rel1 |-> <<Edge(<<"b">>, 1)>>]]

RecAla == [token |-> <<"a", "l", "a">>, relationships |-> [rel1 |-> <<Edge(<<"g">>, 1)>>]]

RecSz == [token |-> <<"7", "z">>, relationships |-> [rel1 |-> <<Edge(<<"g">>, 2)>>]]

WriteSources == {JsonFile([tokens |-> <<RecAl>>]), JsonFile([tokens |-> <<RecSz>>])}

\* the roots the runs start on: no shard file, or the shard files an earlier
\* import left
WriteRoots ==
    LET none == [bg \in WriteShardSet |-> Missing]
    IN {none,
        import_source_into_remote(none, JsonFile([tokens |-> <<RecAla>>]), "Z", 1).root}

\* the runs that execute: one, or two at the same time
RunIds == IF mode = "single" THEN {1} ELSE {1, 2}

Put(f, k, v) == [x \in DOMAIN f \cup {k} |-> IF x = k THEN v ELSE f[x]]

otherVars == <<disk, clock, lastRun, imported, fallbacks, rerun, mode,
               inTok, inFb, outBucket, inA, inB, outAB, outBA, loader, chunks>>

InitWrite ==
    /\ disk = [bg \in Shards |-> Missing]
    /\ clock = 1
    /\ lastRun = NoRun
    /\ imported = {}
    /\ fallbacks = {}
    /\ rerun = NoRerun
    /\ InitBucketArgs
    /\ InitMergeArgs
    /\ fsys \in {files_of(root) : root \in WriteRoots}
    /\ runs = [r \in {1, 2} |-> IdleRun]
    /\ loader = NoLoader
    /\ chunks = NoDirectory

\* the shard the run is at
shard_at(run) == WriteShards[run.i]

\* the run goes on to the next shard of the loop it is in, or leaves the loop
next_shard(run, again, after) ==
    IF run.i < Len(WriteShards)
    THEN [run EXCEPT !.pc = again, !.i = run.i + 1]
    ELSE [run EXCEPT !.pc = after, !.i = 1]

\* import_source_into_remote is called
StartRun(r, source_json, fallback_letter) ==
    /\ r \in RunIds
    /\ runs[r].pc = "idle"
    /\ runs' = [runs EXCEPT ![r] =
                   [pc |-> "layout", i |-> 1, source_json |-> source_json,
                    fallback_letter |-> fallback_letter, now |-> 1 + r,
                    accum |-> <<>>, merged |-> <<>>, fd |-> NoInode,
                    before |-> <<>>, seen |-> <<>>, persisted |-> <<>>,
                    raced |-> {}, later |-> {}]]
    /\ UNCHANGED <<fsys, otherVars>>

\* ensure_layout: if not shard.exists()
LayoutCheck(r) ==
    /\ r \in RunIds
    /\ runs[r].pc = "layout"
    /\ runs' = [runs EXCEPT ![r] =
                   IF path_exists(fsys, shard_path(shard_at(runs[r])))
                   THEN next_shard(runs[r], "layout", "read")
                   ELSE [runs[r] EXCEPT !.pc = "layout_open"]]
    /\ UNCHANGED <<fsys, otherVars>>

\* ensure_layout: shard.write_text opens the final path for writing
LayoutOpen(r) ==
    /\ r \in RunIds
    /\ runs[r].pc = "layout_open"
    /\ LET path == shard_path(shard_at(runs[r]))
           inode == [by |-> r, bg |-> shard_at(runs[r]), kind |-> "json"]
       IN /\ fsys' = open_w(fsys, path, inode)
          /\ runs' = [runs EXCEPT ![r].pc = "layout_write",
                                  ![r].fd = opened_inode(fsys, path, inode)]
    /\ UNCHANGED otherVars

\* ensure_layout: shard.write_text writes the empty document and closes
LayoutWrite(r) ==
    /\ r \in RunIds
    /\ runs[r].pc = "layout_write"
    /\ LET text == text_of(empty_document(runs[r].now))
       IN fsys' = file_write(file_write(fsys, runs[r].fd, 1, text[1]),
                             runs[r].fd, 2, text[2])
    /\ runs' = [runs EXCEPT ![r] = next_shard(runs[r], "layout", "read")]
    /\ UNCHANGED otherVars

\* the source is read and its records are classified into accum
ReadSource(r) ==
    /\ r \in RunIds
    /\ runs[r].pc = "read"
    /\ runs' = [runs EXCEPT ![r] =
          IF read_source_raises(runs[r].source_json)
          THEN [runs[r] EXCEPT !.pc = "failed"]
          ELSE LET run == classify(new_run(runs[r].now),
                                   select_records(runs[r].source_json.value),
                                   runs[r].fallback_letter)
               IN IF run.raised THEN [runs[r] EXCEPT !.pc = "failed"]
                  ELSE [runs[r] EXCEPT
                          !.pc = "load",
                          !.accum = [bg \in WriteShardSet |-> run.accum[bg]],
                          !.before = [bg \in WriteShardSet |->
                                         IF path_exists(fsys, shard_path(bg))
                                         THEN read_path(fsys, shard_path(bg))
                                         ELSE <<>>]]]
    /\ UNCHANGED <<fsys, otherVars>>

\* the other run is between its load and its replace of the same shard
other_holds_stale(r, bg) ==
    \E o \in RunIds \ {r} :
        /\ runs[o].pc \in {"open", "write", "write_rest", "replace"}
        /\ shard_at(runs[o]) = bg

\* the other run has persisted the shard
other_persisted(r, bg) ==
    \E o \in RunIds \ {r} : runs[o].pc # "idle" /\ bg \in DOMAIN runs[o].persisted

\* on_disk = load_json(shard_path); merged = merge_shard(on_disk, accum[shard_name])
Load(r) ==
    /\ r \in RunIds
    /\ runs[r].pc = "load"
    /\ LET run == runs[r]
           bg == shard_at(run)
           path == shard_path(bg)
           content == IF path_exists(fsys, path) THEN read_path(fsys, path) ELSE <<>>
       IN runs' = [runs EXCEPT ![r] =
             IF path_exists(fsys, path) /\ ~is_document(content)
             THEN [run EXCEPT !.pc = "failed"]
             ELSE LET root == [x \in {bg} |->
                                  IF path_exists(fsys, path) THEN parse(content)
                                  ELSE Missing]
                      on_disk == load_json(root, bg, run.now)
                  IN [run EXCEPT
                        !.pc = "open",
                        !.merged = merge_shard(on_disk, run.accum[bg], run.now),
                        !.seen = Put(run.seen, bg, content),
                        !.raced = IF other_holds_stale(r, bg)
                                  THEN run.raced \cup {bg} ELSE run.raced]]
    /\ UNCHANGED <<fsys, otherVars>>

\* atomic_write: tmp.open("w")
OpenTmp(r) ==
    /\ r \in RunIds
    /\ runs[r].pc = "open"
    /\ LET bg == shard_at(runs[r])
           tmp == with_suffix_tmp(shard_path(bg))
           inode == [by |-> r, bg |-> bg, kind |-> "tmp"]
       IN /\ fsys' = open_w(fsys, tmp, inode)
          /\ runs' = [runs EXCEPT ![r].pc = "write",
                                  ![r].fd = opened_inode(fsys, tmp, inode)]
    /\ UNCHANGED otherVars

\* atomic_write: the first part of json.dump's output reaches the file
WriteFirst(r) ==
    /\ r \in RunIds
    /\ runs[r].pc = "write"
    /\ fsys' = file_write(fsys, runs[r].fd, 1, text_of(runs[r].merged)[1])
    /\ runs' = [runs EXCEPT ![r].pc = "write_rest"]
    /\ UNCHANGED otherVars

\* atomic_write: the rest is written and the handle is closed
WriteRest(r) ==
    /\ r \in RunIds
    /\ runs[r].pc = "write_rest"
    /\ fsys' = file_write(fsys, runs[r].fd, 2, text_of(runs[r].merged)[2])
    /\ runs' = [runs EXCEPT ![r].pc = "replace"]
    /\ UNCHANGED otherVars

\* atomic_write: os.replace(tmp, path), FileNotFoundError when tmp is gone
Replace(r) ==
    /\ r \in RunIds
    /\ runs[r].pc = "replace"
    /\ LET run == runs[r]
           bg == shard_at(run)
           path == shard_path(bg)
           tmp == with_suffix_tmp(path)
       IN IF ~path_exists(fsys, tmp)
          THEN /\ runs' = [runs EXCEPT ![r].pc = "failed"]
               /\ UNCHANGED fsys
          ELSE /\ fsys' = os_replace(fsys, tmp, path)
               /\ runs' = [runs EXCEPT ![r] =
                     next_shard([run EXCEPT
                                   !.persisted = Put(run.persisted, bg, run.merged),
                                   !.later = IF other_persisted(r, bg)
                                             THEN run.later \cup {bg} ELSE run.later],
                                "load", "done")]
    /\ UNCHANGED otherVars

\* the process dies at some point of the write loop
Crash(r) ==
    /\ r \in RunIds
    /\ runs[r].pc \in {"load", "open", "write", "write_rest", "replace"}
    /\ runs' = [runs EXCEPT ![r].pc = "crashed"]
    /\ UNCHANGED <<fsys, otherVars>>

NextWrite ==
    \/ \E r \in {1, 2}, source_json \in WriteSources : StartRun(r, source_json, "Z")
    \/ \E r \in {1, 2} : LayoutCheck(r)
    \/ \E r \in {1, 2} : LayoutOpen(r)
    \/ \E r \in {1, 2} : LayoutWrite(r)
    \/ \E r \in {1, 2} : ReadSource(r)
    \/ \E r \in {1, 2} : Load(r)
    \/ \E r \in {1, 2} : OpenTmp(r)
    \/ \E r \in {1, 2} : WriteFirst(r)
    \/ \E r \in {1, 2} : WriteRest(r)
    \/ \E r \in {1, 2} : Replace(r)
    \/ \E r \in {1, 2} : Crash(r)

\* one import run and readers of the shard files
InitSingleRun == mode = "single" /\ InitWrite

SpecSingleRun == InitSingleRun /\ [][NextWrite]_vars

\* two import runs at the same time on one root, and readers
InitConcurrent == mode = "concurrent" /\ InitWrite

SpecConcurrent == InitConcurrent /\ [][NextWrite]_vars

----------------------------------------------------------------------------
(* Claims about readers, concurrent runs and crashes *)

\* a reader of the shard's final path gets a complete document
reads_document(fs, bg) ==
    /\ path_exists(fs, shard_path(bg))
    /\ is_document(read_path(fs, shard_path(bg)))

\* no run is creating the layout: every step is a step of a write loop
in_write_loops ==
    \A r \in {1, 2} : runs[r].pc \notin {"layout", "layout_open", "layout_write"}

\* C14: while several import runs execute concurrently on one root (each in
\* its write loop), a reader of a shard file's final path sees a complete
\* document at every moment: a path that holds a complete document never
\* holds a half-written one after a step of a run.
C14_ReadersSeeWholeDocuments ==
    [][in_write_loops =>
          \A bg \in WriteShardSet :
              reads_document(fsys, bg) => reads_document(fsys', bg)]_vars

\* C15: while a single import run persists a shard with atomic_write, a
\* reader of the shard's final path reads the complete document from before
\* the write at every step up to the replace, and the complete new document
\* after it.
C15_AtomicWriteIsAtomic ==
    LET run == runs[1]
    IN /\ run.pc \in {"open", "write", "write_rest", "replace"} =>
             /\ reads_document(fsys, shard_at(run))
             /\ read_path(fsys, shard_path(shard_at(run))) = run.seen[shard_at(run)]
       /\ run.pc # "idle" =>
             \A bg \in DOMAIN run.persisted :
                 /\ reads_document(fsys, bg)
                 /\ parse(read_path(fsys, shard_path(bg))) = run.persisted[bg]

\* the run has written half of the second shard's new document to the
\* temporary file, after it replaced the first shard, which already held a token
C15_Witness ==
    /\ mode = "single"
    /\ runs[1].pc = "write_rest"
    /\ runs[1].i = 2
    /\ Len(read_path(fsys, with_suffix_tmp(shard_path(<<"Z", "Z">>)))) = 1
    /\ DOMAIN parse(read_path(fsys, shard_path(<<"A", "L">>))).tokens
          = {<<"a", "l">>, <<"a", "l", "a">>}

\* the token keys of a text a run loaded
tokens_seen(content) == IF content = <<>> THEN {} ELSE DOMAIN parse(content).tokens

\* C16: two concurrent import runs can both load a shard before either
\* persists it; the later persist then wins: the shard holds what the later
\* run merged into the document both loaded, without the records that only
\* the other run merged.
C16_LaterPersistWins ==
    \A r \in {1, 2} : \A bg \in WriteShardSet :
        LET run == runs[r]
            other == runs[3 - r]
        IN (/\ run.pc # "idle"
            /\ other.pc # "idle"
            /\ bg \in run.later
            /\ bg \in run.raced \cup other.raced) =>
               /\ reads_document(fsys, bg)
               /\ parse(read_path(fsys, shard_path(bg))) = run.persisted[bg]
               /\ DOMAIN run.persisted[bg].tokens
                     = tokens_seen(other.seen[bg]) \cup DOMAIN run.accum[bg].tokens
               /\ \A token \in DOMAIN other.accum[bg].tokens :
                     token \notin tokens_seen(other.seen[bg]) \cup DOMAIN run.accum[bg].tokens
                         => token \notin DOMAIN parse(read_path(fsys, shard_path(bg))).tokens

\* both runs loaded the shard AL before either persisted it, run 2 persisted
\* it last, and the token that only run 1 merged is not in the shard
C16_Witness ==
    /\ mode = "concurrent"
    /\ runs[1].pc = "done"
    /\ runs[2].pc = "done"
    /\ <<"A", "L">> \in runs[2].later
    /\ <<"A", "L">> \in runs[1].raced \cup runs[2].raced
    /\ <<"a", "l">> \in DOMAIN runs[1].accum[<<"A", "L">>].tokens
    /\ DOMAIN parse(read_path(fsys, shard_path(<<"A", "L">>))).tokens = {<<"a", "l", "a">>}

\* C17: if an import run crashes at any point of its write phase, every shard
\* file is still a complete document: the shards the run had persisted hold
\* their new content, the in-flight shard and the shards not yet written hold
\* their original content.
C17_CrashKeepsShardsWhole ==
    LET run == runs[1]
    IN run.pc = "crashed" =>
          \A k \in DOMAIN WriteShards :
              LET bg == WriteShards[k]
              IN /\ reads_document(fsys, bg)
                 /\ k < run.i => parse(read_path(fsys, shard_path(bg))) = run.persisted[bg]
                 /\ k >= run.i => read_path(fsys, shard_path(bg)) = run.before[bg]

\* the run crashed with half of the second shard's document in the temporary
\* file; the first shard holds the token the run merged
C17_Witness ==
    /\ mode = "single"
    /\ runs[1].pc = "crashed"
    /\ runs[1].i = 2
    /\ path_exists(fsys, with_suffix_tmp(shard_path(<<"Z", "Z">>)))
    /\ Len(read_path(fsys, with_suffix_tmp(shard_path(<<"Z", "Z">>)))) = 1
    /\ <<"a", "l">> \in DOMAIN parse(read_path(fsys, shard_path(<<"A", "L">>))).tokens
    /\ read_path(fsys, shard_path(<<"Z", "Z">>)) = runs[1].before[<<"Z", "Z">>]

\* the shard's final path holds a complete document without token entries
reads_empty_document(fs, bg) ==
    /\ reads_document(fs, bg)
    /\ parse(read_path(fs, shard_path(bg))).tokens = <<>>

\* C28: a shard document that holds token entries is never replaced by an
\* empty document: while a process is still in ensure_layout, no shard that
\* an import run of another process has persisted with token entries reads
\* as an empty document.
C28_LayoutKeepsPopulatedShards ==
    \A r \in {1, 2} : \A bg \in WriteShardSet :
        (/\ runs[r].pc # "idle"
         /\ bg \in DOMAIN runs[r].persisted
         /\ runs[r].persisted[bg].tokens # <<>>
         /\ runs[3 - r].pc \in {"layout", "layout_open", "layout_write"})
            => ~reads_empty_document(fsys, bg)

----------------------------------------------------------------------------
(* Runtime loader: one HLSFShardLoader object next to the import runs of   *)
(* other processes on the same shard root                                  *)

\* {"relationships": {}, "cached_at": None}
EmptyEntry == [relationships |-> <<>>, cached_at |-> None]

\* the character classes of the pattern [A-Za-z][A-Za-z0-9_\- ]*
word_start(c) == c \in Range(ALPHABET) \cup Range(LOWERCASE)

word_part(c) == word_start(c) \/ c \in {"7", "_", "-", " "}

\* the longest prefix of s made of characters the pattern continues with
RECURSIVE word_run(_)
word_run(s) ==
    IF s # <<>> /\ word_part(Head(s)) THEN <<Head(s)>> \o word_run(Tail(s)) ELSE <<>>

\* next(iter(re.findall(pattern, user_input)), ""): the first match, or ""
RECURSIVE first_word(_)
first_word(user_input) ==
    IF user_input = <<>> THEN <<>>
    ELSE IF word_start(Head(user_input))
         THEN <<Head(user_input)>> \o word_run(Tail(user_input))
         ELSE first_word(Tail(user_input))

\* load_json(self.shard_path(bigram)): a bigram outside AA-ZZ names a path
\* that no layout creates
read_shard(root, bigram, now) ==
    IF bigram \in DOMAIN root THEN load_json(root, bigram, now) ELSE empty_document(now)

\* every call reads the file and keeps what it read
load_shard_reads_again(self, root, bigram, now) ==
    LET data == read_shard(root, bigram, now)
    IN [data |-> data,
        self |-> [self EXCEPT
                    !.mem = [bg \in DOMAIN self.mem \cup {bigram} |->
                                IF bg = bigram THEN data ELSE self.mem[bg]],
                    !.reads = @ + 1]]

\* HLSFShardLoader._load_shard: the document and the loader afterwards
load_shard(self, root, bigram, now) ==
    IF bigram \in DOMAIN self.mem
    THEN [data |-> self.mem[bigram], self |-> self]
    ELSE LET data == read_shard(root, bigram, now)
         IN [data |-> data,
             self |-> [self EXCEPT
                         !.mem = [bg \in DOMAIN self.mem \cup {bigram} |->
                                     IF bg = bigram THEN data ELSE self.mem[bg]],
                         !.reads = @ + 1]]

\* the lookup finds nothing
lookup_nothing(shard, normalized) == EmptyEntry

\* shard.get("tokens", {}).get(normalized, {"relationships": {}, "cached_at": None})
lookup_entry(shard, normalized) ==
    Get(Get(shard, "tokens", <<>>), normalized, EmptyEntry)

\* the strings handed to the loader: tokens for adjacency_for_token and
\* typed input for preload_for_input
LoaderTokens ==
    { <<"a", "l">>, <<" ", "a", "l">>, <<"7", "z">>, <<"é", "t">> }

UserInputs ==
    { <<"7", "a", "l", " ", "a">>, <<"?", "é">> }

\* the exports the other processes import while the loader is in use
LoaderSources ==
    {JsonFile([tokens |-> <<entry>>]) : entry \in {RecAl, RecSz}}

InitLoader == mode = "loader" /\ InitRoot /\ InitBucketArgs /\ InitMergeArgs

\* HLSFShardLoader(remote_root, local_cache, fallback_letter)
NewLoader(fallback_letter) ==
    /\ mode = "loader"
    /\ clock < MaxClock
    /\ disk' = ensure_layout(disk, clock)
    /\ clock' = clock + 1
    /\ loader' = [made |-> TRUE, fallback |-> fallback_letter, mem |-> <<>>,
                  reads |-> 0, call |-> [op |-> "none"]]
    /\ UNCHANGED <<lastRun, imported, fallbacks, rerun, mode, inTok, inFb,
                   outBucket, inA, inB, outAB, outBA, fsys, runs, chunks>>

\* loader.preload_for_input(user_input)
Preload(user_input) ==
    /\ mode = "loader"
    /\ loader.made
    /\ LET token == normalize_token(first_word(user_input))
           bigram == bigram_bucket(token, loader.fallback)[2]
           loaded == load_shard(loader, disk, bigram, clock)
       IN loader' = [loaded.self EXCEPT
                        !.call = [op |-> "preload", arg |-> user_input, at |-> clock,
                                  token |-> token, bigram |-> bigram,
                                  result |-> loaded.data]]
    /\ UNCHANGED <<disk, clock, lastRun, imported, fallbacks, rerun, mode, inTok,
                   inFb, outBucket, inA, inB, outAB, outBA, fsys, runs, chunks>>

\* loader.adjacency_for_token(token)
Adjacency(token) ==
    /\ mode = "loader"
    /\ loader.made
    /\ LET normalized == normalize_token(token)
           bigram == bigram_bucket(normalized, loader.fallback)[2]
           loaded == load_shard(loader, disk, bigram, clock)
       IN loader' = [loaded.self EXCEPT
                        !.call = [op |-> "adjacency", arg |-> token, at |-> clock,
                                  token |-> normalized, bigram |-> bigram,
                                  result |-> lookup_entry(loaded.data, normalized)]]
    /\ UNCHANGED <<disk, clock, lastRun, imported, fallbacks, rerun, mode, inTok,
                   inFb, outBucket, inA, inB, outAB, outBA, fsys, runs, chunks>>

\* an import run of another process on the same root
LoaderImport(source_json, fallback_letter) ==
    /\ mode = "loader"
    /\ clock < MaxClock
    /\ \E run \in {import_source_into_remote(disk, source_json, fallback_letter, clock)} :
          RunImport(source_json, fallback_letter, run)
    /\ UNCHANGED rerun

NextLoader ==
    \/ \E fallback_letter \in FallbackLetters : NewLoader(fallback_letter)
    \/ \E user_input \in UserInputs : Preload(user_input)
    \/ \E token \in LoaderTokens : Adjacency(token)
    \/ \E source_json \in LoaderSources : LoaderImport(source_json, "Z")

SpecLoader == InitLoader /\ [][NextLoader]_vars

\* the step is a call of adjacency_for_token that returned
adjacency_step == loader.made /\ loader'.call.op = "adjacency" /\ loader' # loader

\* the entry the shard file of the bigram stores under the token right now,
\* the empty entry when it stores none or when there is no such file
stored_entry(root, bigram, normalized) ==
    IF bigram \in DOMAIN root /\ root[bigram] # Missing
    THEN Get(root[bigram].tokens, normalized, EmptyEntry)
    ELSE EmptyEntry

\* C24 as stated: adjacency_for_token(t) returns the entry that the shard
\* selected by bigram_bucket stores under the normalized token, and the empty
\* entry when the token is not stored or the shard file does not exist.
C24_ReturnsStoredEntry ==
    [][adjacency_step =>
          LET call == loader'.call
          IN /\ call.token = normalize_token(call.arg)
             /\ call.bigram = bigram_bucket(call.arg, loader.fallback)[2]
             /\ call.result = stored_entry(disk, call.bigram, call.token)]_vars

\* C24 amended: the entry is the one of the shard file as it was when this
\* loader first loaded the bucket: the file of this moment when the loader
\* has not loaded the bucket yet, the loader's copy otherwise; the empty
\* entry when that document does not store the token or there is no file.
C24_ReturnsEntryAsLoaded ==
    [][adjacency_step =>
          LET call == loader'.call
          IN /\ call.token = normalize_token(call.arg)
             /\ call.bigram = bigram_bucket(call.arg, loader.fallback)[2]
             /\ call.bigram \notin DOMAIN loader.mem =>
                    call.result = stored_entry(disk, call.bigram, call.token)
             /\ call.bigram \in DOMAIN loader.mem =>
                    call.result = Get(loader.mem[call.bigram].tokens, call.token, EmptyEntry)]_vars

\* the loader answered a token given with a leading blank with the entry the
\* shard AL stores under "al", and a token of a bucket outside AA-ZZ, which
\* has no shard file, with the empty entry
C24_Witness ==
    /\ mode = "loader"
    /\ loader.made
    /\ loader.call.op = "adjacency"
    /\ loader.call.arg = <<" ", "a", "l">>
    /\ loader.call.result # EmptyEntry
    /\ loader.call.result = disk[<<"A", "L">>].tokens[<<"a", "l">>]
    /\ <<"É", "T">> \in DOMAIN loader.mem

\* C25: the loader performs no writes: constructing it and calling
\* preload_for_input or adjacency_for_token changes no file of the shard root
\* and creates none.
C25_LoaderWritesNothing == [][loader' # loader => disk' = disk]_vars

\* the step is a call that finds the bucket's shard in the loader's memory
memo_hit_step ==
    /\ loader.made
    /\ loader'.call.op \in {"preload", "adjacency"}
    /\ loader' # loader
    /\ loader'.call.bigram \in DOMAIN loader.mem

\* C29: once the loader has loaded a bucket's shard, every later
\* preload_for_input or adjacency_for_token in that bucket is answered from
\* the copy in memory, without a read of the file, whatever an import has
\* written to the file since.
C29_AnsweredFromMemory ==
    [][memo_hit_step =>
          LET call == loader'.call
              held == loader.mem[call.bigram]
          IN /\ loader'.reads = loader.reads
             /\ loader'.mem = loader.mem
             /\ call.op = "preload" => call.result = held
             /\ call.op = "adjacency" =>
                    call.result = Get(held.tokens, call.token, EmptyEntry)]_vars

\* the loader answered "al" with the empty entry from the copy of AL it had
\* loaded, after an import stored "al" in the shard file
C29_Witness ==
    /\ mode = "loader"
    /\ loader.made
    /\ loader.call.op = "adjacency"
    /\ loader.call.token = <<"a", "l">>
    /\ loader.call.result = EmptyEntry
    /\ loader.call.at = clock
    /\ loader.reads = 1
    /\ <<"a", "l">> \in DOMAIN disk[<<"A", "L">>].tokens

----------------------------------------------------------------------------
(* Prefix chunker (hlsf_db_tools/chunker.py): the prefix of a token *)

\* str.isascii and str.isdigit on the characters of the model, with one
\* non-ASCII digit (SUPERSCRIPT TWO)
isascii(c) == c \notin {"é", "É", "²"}

isdigit(c) == c \in {"7", "²"}

prefix_for_token(token) ==
    IF token = <<>> THEN "_"
    ELSE LET first == token[1]
         IN IF isascii(first) /\ isalpha(first) THEN lower(first)
            ELSE IF isdigit(first) THEN first
            ELSE "_"

PrefixChars == {"a", "L", "7", "#", " ", "é", "É", "²"}

\* the tokens of the test suite's examples and every short string
PrefixTokens ==
    SeqsUpTo(PrefixChars, MaxTokenLen)
    \cup { <<"B", "e", "t", "a">>, <<"7", "z", "i", "p">>, <<"#", "h", "a", "s", "h">> }

InitPrefix ==
    /\ mode = "prefix"
    /\ InitRoot
    /\ InitMergeArgs
    /\ inTok \in PrefixTokens
    /\ inFb = "Z"
    /\ outBucket = NotRun

CallPrefixForToken ==
    /\ mode = "prefix"
    /\ ~outBucket.done
    /\ outBucket' = [done |-> TRUE, prefix |-> prefix_for_token(inTok)]
    /\ UNCHANGED <<disk, clock, lastRun, imported, fallbacks, rerun, mode, inTok,
                   inFb, inA, inB, outAB, outBA, fsys, runs, loader, chunks>>

SpecPrefix == InitPrefix /\ [][CallPrefixForToken]_vars

\* C26: prefix_for_token returns the lowercase letter when the first
\* character is an ASCII letter, the digit itself when it is a digit, and
\* "_" in every other case: empty token, punctuation, any non-ASCII first
\* character.
C26_PrefixOfToken ==
    outBucket.done =>
        LET first == inTok[1]
        IN outBucket.prefix =
              IF inTok = <<>> \/ ~isascii(first) THEN "_"
              ELSE IF first \in Range(ALPHABET) \cup Range(LOWERCASE) THEN lower(first)
              ELSE IF first = "7" THEN "7"
              ELSE "_"

----------------------------------------------------------------------------
(* Prefix chunker: process_database on a chunks directory.  A directory is *)
(* the function from the names of its *.json files (without the suffix) to *)
(* their contents.                                                         *)

SYMBOL_BUCKET == <<"s", "y", "m", "b", "o", "l", "s">>

\* symbol_list(load_symbol_categories()): the first symbols of the static list
SymbolList == << <<"!">>, <<"?">> >>

\* str(entry.get("token", ""))
token_str(entry) == Get(entry, "token", <<>>)

\* sorted(entries, key=lambda item: str(item.get("token", ""))): a stable sort
RECURSIVE sorted_by_token(_)
sorted_by_token(entries) ==
    IF entries = <<>> THEN <<>>
    ELSE LET i == CHOOSE k \in DOMAIN entries :
                     /\ \A j \in DOMAIN entries :
                            ~StrLess(token_str(entries[j]), token_str(entries[k]))
                     /\ \A j \in 1..(k - 1) :
                            token_str(entries[j]) # token_str(entries[k])
         IN <<entries[i]>>
            \o sorted_by_token([k \in 1..(Len(entries) - 1) |->
                                   IF k < i THEN entries[k] ELSE entries[k + 1]])

\* the entries of a prefix, in the order of the export
RECURSIVE entries_of_prefix(_, _)
entries_of_prefix(full, prefix) ==
    IF full = <<>> THEN <<>>
    ELSE (IF <<prefix_for_token(token_str(Head(full)))>> = prefix
          THEN <<Head(full)>> ELSE <<>>)
         \o entries_of_prefix(Tail(full), prefix)

\* grouped_tokens: the prefixes (file stems) and their entries
group_tokens(full) ==
    LET prefixes == {<<prefix_for_token(token_str(full[i]))>> : i \in DOMAIN full}
    IN [prefix \in prefixes |-> entries_of_prefix(full, prefix)]

\* the files of the directory stay where they are
remove_nothing(chunks_dir) ==
    IF ~chunks_dir.exists THEN [exists |-> TRUE, files |-> <<>>] ELSE chunks_dir

\* a missing directory is created; every *.json file of an existing one is
\* unlinked
remove_existing_chunks(chunks_dir) == [exists |-> TRUE, files |-> <<>>]

\* write_chunk_files: one file per prefix
write_chunk_files(grouped_tokens, chunks_dir) ==
    [chunks_dir EXCEPT !.files =
        [name \in DOMAIN chunks_dir.files \cup DOMAIN grouped_tokens |->
            IF name \in DOMAIN grouped_tokens
            THEN [prefix |-> name,
                  token_count |-> Len(grouped_tokens[name]),
                  tokens |-> sorted_by_token(grouped_tokens[name])]
            ELSE chunks_dir.files[name]]]

\* write_symbol_chunk: the static chunk of the symbol tokens
write_symbol_chunk(chunks_dir) ==
    [chunks_dir EXCEPT !.files =
        [name \in DOMAIN chunks_dir.files \cup {SYMBOL_BUCKET} |->
            IF name = SYMBOL_BUCKET
            THEN [prefix |-> SYMBOL_BUCKET,
                  token_count |-> Len(SymbolList),
                  tokens |-> [i \in DOMAIN SymbolList |->
                                 [token |-> SymbolList[i], kind |-> "sym"]]]
            ELSE chunks_dir.files[name]]]

\* process_database(source, output_dir): the chunks directory afterwards and
\* the returned count (metadata.json and token-index.json are written next
\* to the chunks directory, not in it)
process_database(source, chunks_dir) ==
    LET data == load_database(source)
    IN IF data.raised
       THEN [raised |-> TRUE, count |-> 0, chunks |-> chunks_dir]
       ELSE LET grouped_tokens == group_tokens(data.value.full_token_data)
                written == write_chunk_files(grouped_tokens,
                                             remove_existing_chunks(chunks_dir))
            IN [raised |-> FALSE,
                count |-> Cardinality(DOMAIN grouped_tokens) + 1,
                chunks |-> write_symbol_chunk(written)]

\* the records of the chunker's exports: the test suite's kinds of token, a
\* record without token and a token that starts with a non-ASCII digit
ChunkRecords ==
    { [token |-> <<"a", "l">>], [token |-> <<"a">>, kind |-> "x"],
      [token |-> <<"L", "a">>], [token |-> <<"7", "z">>], [token |-> <<"#", "a">>],
      [token |-> <<"é", "t">>], [kind |-> "x"], [token |-> <<"²", "a">>] }

ChunkSources ==
    {NoSourceFile, UnparsableFile, JsonFile(<<>>), JsonFile([full_token_data |-> <<>>])}
    \cup {JsonFile([full_token_data |-> full]) : full \in SeqsUpTo(ChunkRecords, MaxRecords) \ {<<>>}}

InitChunks == mode = "chunks" /\ InitRoot /\ InitBucketArgs /\ InitMergeArgs

ProcessDatabase(source) ==
    /\ mode = "chunks"
    /\ clock < MaxClock
    /\ LET run == process_database(source, chunks)
       IN /\ chunks' = run.chunks
          /\ lastRun' = [op |-> "process_database", raised |-> run.raised,
                         count |-> run.count,
                         prefixes |-> IF run.raised THEN {}
                                      ELSE DOMAIN group_tokens(source.value.full_token_data),
                         before |-> IF chunks.exists THEN DOMAIN chunks.files ELSE {}]
    /\ clock' = clock + 1
    /\ UNCHANGED <<disk, imported, fallbacks, rerun, mode, inTok, inFb, outBucket,
                   inA, inB, outAB, outBA, fsys, runs, loader>>

NextChunks == \E source \in ChunkSources : ProcessDatabase(source)

SpecChunks == InitChunks /\ [][NextChunks]_vars

\* C27: process_database returns the number of distinct token prefixes of the
\* export plus one (the symbols chunk), and afterwards the chunks directory
\* holds exactly the chunk files of those prefixes and the symbols chunk:
\* none is left from an earlier run on another export.
C27_ChunksAreTheRunsChunks ==
    (lastRun.op = "process_database" /\ ~lastRun.raised) =>
        /\ lastRun.count = Cardinality(lastRun.prefixes) + 1
        /\ chunks.exists
        /\ DOMAIN chunks.files = lastRun.prefixes \cup {SYMBOL_BUCKET}
        /\ \A prefix \in lastRun.prefixes :
               /\ chunks.files[prefix].prefix = prefix
               /\ chunks.files[prefix].token_count = Len(chunks.files[prefix].tokens)
               /\ \A i \in DOMAIN chunks.files[prefix].tokens :
                      <<prefix_for_token(token_str(chunks.files[prefix].tokens[i]))>> = prefix

\* a run on an export of two "a" tokens returned 2 in a directory where an
\* earlier run had left the chunks of "7" and "l"
C27_Witness ==
    /\ mode = "chunks"
    /\ lastRun.op = "process_database"
    /\ ~lastRun.raised
    /\ lastRun.before = {<<"7">>, <<"l">>, SYMBOL_BUCKET}
    /\ lastRun.count = 2
    /\ DOMAIN chunks.files = {<<"a">>, SYMBOL_BUCKET}
    /\ chunks.files[<<"a">>].token_count = 2

----------------------------------------------------------------------------
(* Two exports imported in both orders, and as one export, each time into  *)
(* a root without shard files                                              *)

\* the tokens mapping of every shard file of a root
tokens_content(root) == [bg \in DOMAIN root |-> tokens_of(root, bg)]

\* the import of an export into a root without shard files
import_first(first, fallback_letter) ==
    import_source_into_remote([bg \in Shards |-> Missing], JsonFile(first),
                              fallback_letter, 1)

\* the import of an export into the root that an earlier run left
import_second(one, second, fallback_letter) ==
    import_source_into_remote(one.root, JsonFile(second), fallback_letter, 2)

\* one import of an export that holds the records of E1 followed by those of E2
import_joined(first, second, fallback_letter) ==
    import_first([tokens |-> select_records(first) \o select_records(second)],
                 fallback_letter)

InitCommute ==
    /\ mode = "commute"
    /\ InitRoot
    /\ InitBucketArgs
    /\ inA \in Exports
    /\ inB \in Exports
    /\ outAB = NotRun
    /\ outBA = NotRun

ImportBothOrders(fallback_letter) ==
    /\ mode = "commute"
    /\ ~outAB.done
    /\ \E a \in {import_first(inA, fallback_letter)},
          b \in {import_first(inB, fallback_letter)},
          joined \in {import_joined(inA, inB, fallback_letter)} :
          \E ab \in {import_second(a, inB, fallback_letter)},
             ba \in {import_second(b, inA, fallback_letter)} :
             /\ outAB' = [done |-> TRUE, raised |-> a.raised \/ ab.raised,
                          value |-> tokens_content(ab.root)]
             /\ outBA' = [done |-> TRUE, raised |-> b.raised \/ ba.raised,
                          value |-> tokens_content(ba.root)]
             /\ lastRun' = [op |-> "import-joined",
                            fallback_letter |-> fallback_letter,
                            raised |-> joined.raised,
                            value |-> tokens_content(joined.root)]
    /\ UNCHANGED <<disk, clock, imported, fallbacks, rerun, mode, inTok, inFb,
                   outBucket, inA, inB, fsys, runs, loader, chunks>>

NextCommute == \E fallback_letter \in FallbackLetters : ImportBothOrders(fallback_letter)

SpecCommute == InitCommute /\ [][NextCommute]_vars

\* C30: sequential imports commute: importing E1 and then E2 into a root
\* without shard files gives every shard the tokens content that importing E2
\* and then E1 gives it, and that one import of the records of E1 followed by
\* those of E2 gives it.
C30_ImportsCommute ==
    outAB.done => (outAB.value = outBA.value /\ outAB.value = lastRun.value)

====
